---- MODULE Spec2Model ----
(***************************************************************************)
(* Model of src/homework/clean_data.py: the fingerprint-key clustering of  *)
(* the raw_text column (load_data, create_normalized_key,                  *)
(* generate_cleaned_text, save_data, main).                                *)
(*                                                                         *)
(* A Python str is a sequence of one-character strings; a DataFrame is a   *)
(* record holding its column names and one sequence per column.            *)
(***************************************************************************)
EXTENDS Integers, Sequences, FiniteSets, TLC

VARIABLES fs, df, tokens, keys, key_dict, pc

vars == <<fs, df, tokens, keys, key_dict, pc>>

(* ------------------------------ bounds --------------------------------- *)

\* Largest number of rows of a frame whose texts come from Pool.
MaxRows == 3

\* Largest length of a text enumerated over Sigma.
MaxLen == 4

(* ---------------------------- characters ------------------------------- *)

\* The printable ASCII characters in code-point order, 32 (space) to 126 (~).
\* The grave accent (code point 96), which a TLA+ string cannot hold, is the
\* atom "grave".
Ascii ==
  << " ", "!", "\"", "#", "$", "%", "&", "'", "(", ")", "*", "+", ",", "-", ".", "/",
     "0", "1", "2", "3", "4", "5", "6", "7", "8", "9", ":", ";", "<", "=", ">", "?",
     "@", "A", "B", "C", "D", "E", "F", "G", "H", "I", "J", "K", "L", "M", "N", "O",
     "P", "Q", "R", "S", "T", "U", "V", "W", "X", "Y", "Z", "[", "\\", "]", "^", "_",
     "grave", "a", "b", "c", "d", "e", "f", "g", "h", "i", "j", "k", "l", "m", "n", "o",
     "p", "q", "r", "s", "t", "u", "v", "w", "x", "y", "z", "{", "|", "}", "~" >>

Chars == {Ascii[i] : i \in DOMAIN Ascii}

\* ord(c): position in Ascii shifted to the code point of the space.
CodePoint == [c \in Chars |-> 31 + (CHOOSE i \in DOMAIN Ascii : Ascii[i] = c)]

\* str.lower() on one character: the capitals A to Z move 32 code points up.
Lower == [c \in Chars |->
            IF CodePoint[c] >= CodePoint["A"] /\ CodePoint[c] <= CodePoint["Z"]
            THEN Ascii[CodePoint[c] - 31 + 32]
            ELSE c]

\* Whitespace as str.strip() and str.split() without argument see it; the
\* space is the only whitespace character among the modelled ones.
Whitespace == {" "}

\* The third argument of str.maketrans at line 45 (it lists the hyphen as well).
Punctuation ==
  { "!", "\"", "#", "$", "%", "&", "'", "(", ")", "*", "+", ",", "-", ".", "/",
    ":", ";", "<", "=", ">", "?", "@", "[", "\\", "]", "^", "_", "grave", "{", "|",
    "}", "~" }

(* ------------------------------ strings -------------------------------- *)

MinOf(S) == CHOOSE x \in S : \A y \in S : x <= y

\* The order of Python str comparison: code-point lexicographic.
StrLess(a, b) ==
  LET n    == IF Len(a) < Len(b) THEN Len(a) ELSE Len(b)
      diff == {i \in 1..n : a[i] # b[i]}
  IN  IF diff = {} THEN Len(a) < Len(b)
      ELSE CodePoint[a[MinOf(diff)]] < CodePoint[b[MinOf(diff)]]

StrLeq(a, b) == a = b \/ StrLess(a, b)

RECURSIVE LStrip(_)
LStrip(s) ==
  IF s # <<>> /\ Head(s) \in Whitespace THEN LStrip(Tail(s)) ELSE s

RECURSIVE RStrip(_)
RStrip(s) ==
  IF s # <<>> /\ s[Len(s)] \in Whitespace
  THEN RStrip(SubSeq(s, 1, Len(s) - 1))
  ELSE s

\* str.strip()
Strip(s) == RStrip(LStrip(s))

\* str.lower()
LowerStr(s) == [i \in 1..Len(s) |-> Lower[s[i]]]

\* str.replace(old, new) for a one-character old.
RECURSIVE ReplaceWithSpace(_, _, _)
ReplaceWithSpace(s, old, new) ==
  IF s = <<>> THEN <<>>
  ELSE (IF Head(s) = old THEN <<" ">> ELSE <<Head(s)>>)
       \o ReplaceWithSpace(Tail(s), old, new)

RECURSIVE Replace(_, _, _)
Replace(s, old, new) ==
  IF s = <<>> THEN <<>>
  ELSE (IF Head(s) = old THEN new ELSE <<Head(s)>>) \o Replace(Tail(s), old, new)

\* str.translate(str.maketrans(empty, empty, deleted)): the characters of deleted vanish.
TranslateKeep(s, deleted) == s

RECURSIVE Translate(_, _)
Translate(s, deleted) ==
  IF s = <<>> THEN <<>>
  ELSE (IF Head(s) \in deleted THEN <<>> ELSE <<Head(s)>>)
       \o Translate(Tail(s), deleted)

\* str.split(): the maximal runs of non-whitespace characters, in order.
RECURSIVE SplitFrom(_, _)
SplitFrom(s, word) ==
  IF s = <<>> THEN (IF word = <<>> THEN <<>> ELSE <<word>>)
  ELSE IF Head(s) \in Whitespace
       THEN (IF word = <<>> THEN <<>> ELSE <<word>>) \o SplitFrom(Tail(s), <<>>)
       ELSE SplitFrom(Tail(s), Append(word, Head(s)))

Split(s) == SplitFrom(s, <<>>)

\* sep.join(list)
RECURSIVE JoinNoSep(_, _)
JoinNoSep(sep, list) ==
  IF list = <<>> THEN <<>> ELSE Head(list) \o JoinNoSep(sep, Tail(list))

RECURSIVE Join(_, _)
Join(sep, list) ==
  IF list = <<>> THEN <<>>
  ELSE IF Len(list) = 1 THEN Head(list)
       ELSE Head(list) \o sep \o Join(sep, Tail(list))

\* sorted(S) for a set of str.
RECURSIVE Sorted(_)
Sorted(S) ==
  IF S = {} THEN <<>>
  ELSE LET m == CHOOSE x \in S : \A y \in S : StrLeq(x, y)
       IN  <<m>> \o Sorted(S \ {m})

ToSet(list) == {list[i] : i \in DOMAIN list}

EndsWith(w, suffix) ==
  /\ Len(w) >= Len(suffix)
  /\ SubSeq(w, Len(w) - Len(suffix) + 1, Len(w)) = suffix

DropLast(w, n) == SubSeq(w, 1, Len(w) - n)

(* ------------------------------ stemmer -------------------------------- *)

\* Step 1a of the Porter stemmer as NLTK implements it (plural endings).
Step1a(w) ==
  IF EndsWith(w, <<"s", "s", "e", "s">>) THEN DropLast(w, 2)
  ELSE IF EndsWith(w, <<"i", "e", "s">>)
       THEN (IF Len(w) = 4 THEN DropLast(w, 1) ELSE DropLast(w, 2))
  ELSE IF EndsWith(w, <<"s", "s">>) THEN w
  ELSE IF EndsWith(w, <<"s">>) THEN DropLast(w, 1)
  ELSE w

\* stemmer.stem(word), line 55, on the words the modelled texts produce.
\* Words of at most two letters are returned as they are; the two words
\* the comment at line 53 names go to its stated root; every other
\* modelled word (letters a, s, and the words fast, runnerfast) is changed
\* by step 1a alone, no later step of the algorithm having a suffix to strip.
Stem(w) ==
  IF Len(w) <= 2 THEN w
  ELSE IF w = <<"r", "u", "n", "n", "i", "n", "g">> THEN <<"r", "u", "n">>
  ELSE IF w = <<"r", "u", "n", "n", "e", "r">> THEN <<"r", "u", "n">>
  ELSE Step1a(w)

(* --------------------------- the key of a text -------------------------- *)

\* The value of the key column after line 49: strip, lower, the hyphens
\* replaced by nothing, the punctuation translated away, split.
Tokens(text) ==
  Split(Translate(Replace(LowerStr(Strip(text)), "-", <<>>), Punctuation))

\* Line 55: every token stemmed, in order.
Stems(toks) == [i \in 1..Len(toks) |-> Stem(toks[i])]

\* Lines 60 and 65: the distinct stems, sorted, joined by one space.
KeyOf(stems) == Join(<<" ">>, Sorted(ToSet(stems)))

NormalizedKey(text) == KeyOf(Stems(Tokens(text)))

(* ------------------------------- frames -------------------------------- *)

InputFile == "files/input.txt"
TestFile == "files/test.csv"
OutputFile == "files/output.txt"

\* The value a missing key maps to in Series.map.
NaN == <<"nan">>

NoFrame == [columns |-> <<>>, raw_text |-> <<>>, key |-> <<>>, cleaned_text |-> <<>>]

\* A frame with the single column raw_text.
Frame(texts) ==
  [columns |-> <<"raw_text">>, raw_text |-> texts, key |-> <<>>, cleaned_text |-> <<>>]

NRows(d) == Len(d.raw_text)

\* df[name] = ... appends the column name unless the frame has it already.
AddColumn(cols, name) == IF name \in ToSet(cols) THEN cols ELSE Append(cols, name)

RECURSIVE SortedInts(_)
SortedInts(S) ==
  IF S = {} THEN <<>> ELSE <<MinOf(S)>> \o SortedInts(S \ {MinOf(S)})

\* The rows idx[1], idx[2], ... of frame d, every column it has.
TakeRows(d, idx) ==
  LET col(c) == IF c \in ToSet(d.columns)
                THEN [k \in 1..Len(idx) |-> d[c][idx[k]]]
                ELSE <<>>
  IN  [columns |-> d.columns, raw_text |-> col("raw_text"), key |-> col("key"),
       cleaned_text |-> col("cleaned_text")]

\* Row i comes before row j in sort_values(by=[key, raw_text]); rows equal
\* in both columns keep their order.
RowBefore(d, i, j) ==
  \/ StrLess(d.key[i], d.key[j])
  \/ /\ d.key[i] = d.key[j]
     /\ \/ StrLess(d.raw_text[i], d.raw_text[j])
        \/ d.raw_text[i] = d.raw_text[j] /\ i < j

RECURSIVE SortedRows(_, _)
SortedRows(d, S) ==
  IF S = {} THEN <<>>
  ELSE LET m == CHOOSE i \in S : \A j \in S \ {i} : RowBefore(d, i, j)
       IN  <<m>> \o SortedRows(d, S \ {m})

\* DataFrame.sort_values(by=[key, raw_text], ascending=[True, True])
SortValues(d) == TakeRows(d, SortedRows(d, 1..NRows(d)))

\* DataFrame.drop_duplicates(subset=key, keep=first)
KeepAll(d) == d

DropDuplicates(d) ==
  TakeRows(d, SortedInts({i \in 1..NRows(d) : \A j \in 1..(i - 1) : d.key[j] # d.key[i]}))

\* dict(zip(ks, vs)): a later pair replaces an earlier one with the same key.
ZipDict(ks, vs) ==
  LET n == IF Len(ks) < Len(vs) THEN Len(ks) ELSE Len(vs)
  IN  [k \in {ks[i] : i \in 1..n} |->
         vs[CHOOSE i \in 1..n : ks[i] = k /\ \A j \in (i + 1)..n : ks[j] # k]]

\* Series.map(dict)
MapColumn(col, dict) ==
  [i \in 1..Len(col) |-> IF col[i] \in DOMAIN dict THEN dict[col[i]] ELSE NaN]

(* ----------------------------- operations ------------------------------ *)

\* create_normalized_key with the strip applied to raw_text itself.
CreateNormalizedKeyStripRaw(d) ==
  [d EXCEPT !.columns = AddColumn(@, "key"),
            !.raw_text = [i \in 1..NRows(d) |-> Strip(d.raw_text[i])],
            !.key = [i \in 1..NRows(d) |-> NormalizedKey(d.raw_text[i])]]

\* create_normalized_key: a copy of the frame with the column key added.
CreateNormalizedKey(d) ==
  [d EXCEPT !.columns = AddColumn(@, "key"),
            !.key = [i \in 1..NRows(d) |-> NormalizedKey(d.raw_text[i])]]

\* generate_cleaned_text zipping the kept keys with the texts of df.
GenerateCleanedTextZipDf(d) ==
  LET ks   == DropDuplicates(d)
      dict == ZipDict(ks.key, d.raw_text)
  IN  [keys |-> ks, key_dict |-> dict,
       df |-> [d EXCEPT !.columns = AddColumn(@, "cleaned_text"),
                        !.cleaned_text = MapColumn(d.key, dict)]]

\* generate_cleaned_text: the locals keys and key_dict and the frame returned.
\* The frame sorted at line 76 is overwritten at line 81, which removes the
\* duplicates of df itself.
GenerateCleanedText(d) ==
  LET sorted == SortValues(d)
      ks     == DropDuplicates(d)
      dict   == ZipDict(ks.key, ks.raw_text)
  IN  [keys |-> ks, key_dict |-> dict,
       df |-> [d EXCEPT !.columns = AddColumn(@, "cleaned_text"),
                        !.cleaned_text = MapColumn(d.key, dict)]]

\* What save_data writes: the columns raw_text and cleaned_text of the frame.
SaveData(d) ==
  [columns |-> <<"raw_text", "cleaned_text">>, raw_text |-> d.raw_text,
   key |-> <<>>, cleaned_text |-> d.cleaned_text]

(* ------------------------------- inputs -------------------------------- *)

\* The characters of the enumerated texts.
Sigma == {" ", "-", "!", "A", "a", "s"}

Texts == UNION {[1..n -> Sigma] : n \in 0..MaxLen}

\* Texts with capitals, punctuation and plural endings for the longer frames.
Pool ==
  { <<"a">>, <<"A">>, <<" ", "a">>, <<"a", "!">>, <<"!">>, <<>>,
    <<"A", "a", "s">>, <<"a", "a">>, <<"s", " ", "a">>, <<"a", "-", "s">>,
    <<"a", "!", "s">> }

\* The rows of scenario 1.
Scenario1 ==
  << <<"R", "u", "n", "n", "i", "n", "g", " ", "f", "a", "s", "t", "!">>,
     <<"r", "u", "n", "n", "e", "r", "-", "f", "a", "s", "t">>,
     <<" ", " ", "R", "U", "N", "N", "I", "N", "G", " ", "F", "A", "S", "T", " ", " ">> >>

Inputs ==
  (UNION {[1..n -> Pool] : n \in 0..MaxRows})
    \cup {<<u>> : u \in Texts}
    \cup {<<t, u>> : t \in Pool, u \in Texts}
    \cup {<<u, t>> : t \in Pool, u \in Texts}
    \cup {Scenario1}

(* --------------------------- the state machine -------------------------- *)

\* The input file holds some frame of texts; main has not started.
Init ==
  /\ \E rows \in Inputs : fs = (InputFile :> Frame(rows))
  /\ df = NoFrame
  /\ tokens = <<>>
  /\ keys = NoFrame
  /\ key_dict = <<>>
  /\ pc = "start"

\* main, line 113: df = load_data(input_file)
load_data ==
  /\ pc = "start"
  /\ df' = fs[InputFile]
  /\ pc' = "loaded"
  /\ UNCHANGED <<fs, tokens, keys, key_dict>>

\* main, line 117: df = create_normalized_key(df); tokens records the key
\* column as it is after line 49.
create_normalized_key ==
  /\ pc = "loaded"
  /\ tokens' = [i \in 1..NRows(df) |-> Tokens(df.raw_text[i])]
  /\ df' = CreateNormalizedKey(df)
  /\ pc' = "keyed"
  /\ UNCHANGED <<fs, keys, key_dict>>

\* stemmer.stem raises on some token at line 55: nothing catches it, the
\* exception leaves create_normalized_key and main.
stemmer_raises ==
  /\ pc = "loaded"
  /\ \E i \in 1..NRows(df) : Tokens(df.raw_text[i]) # <<>>
  /\ pc' = "failed"
  /\ UNCHANGED <<fs, df, tokens, keys, key_dict>>

\* main, line 121: df = generate_cleaned_text(df)
generate_cleaned_text ==
  /\ pc = "keyed"
  /\ LET r == GenerateCleanedText(df)
     IN  /\ keys' = r.keys
         /\ key_dict' = r.key_dict
         /\ df' = r.df
  /\ pc' = "cleaned"
  /\ UNCHANGED <<fs, tokens>>

\* main, line 124: df.to_csv of the whole frame to the intermediate file.
main_to_csv ==
  /\ pc = "cleaned"
  /\ fs' = (TestFile :> df) @@ fs
  /\ pc' = "tested"
  /\ UNCHANGED <<df, tokens, keys, key_dict>>

\* main, line 127: save_data(df, output_file)
save_data ==
  /\ pc = "tested"
  /\ fs' = (OutputFile :> SaveData(df)) @@ fs
  /\ pc' = "saved"
  /\ UNCHANGED <<df, tokens, keys, key_dict>>

Next ==
  \/ load_data
  \/ create_normalized_key
  \/ stemmer_raises
  \/ generate_cleaned_text
  \/ main_to_csv
  \/ save_data

Spec == Init /\ [][Next]_vars

(* ------------------------------ properties ------------------------------ *)

Keyed == pc \in {"keyed", "cleaned", "tested", "saved"}

Cleaned == pc \in {"cleaned", "tested", "saved"}

Rows == 1..NRows(df)

\* The raw texts of the records whose key is k.
Cluster(k) == {df.raw_text[i] : i \in {j \in Rows : df.key[j] = k}}

Smallest(S) == CHOOSE x \in S : \A y \in S : StrLeq(x, y)

\* The text has no character besides punctuation, hyphens and whitespace.
OnlyPunct(t) == \A i \in 1..Len(t) : t[i] \in Punctuation \cup Whitespace

\* C1: once generate_cleaned_text has run, every key whose cluster holds at
\* least two distinct raw texts is mapped to the lexicographically smallest
\* raw text of the cluster, whatever the order of the rows.
C1_SmallestRepresentative ==
  Cleaned =>
    \A i \in Rows :
      Cardinality(Cluster(df.key[i])) >= 2 =>
        /\ df.key[i] \in DOMAIN key_dict
        /\ key_dict[df.key[i]] = Smallest(Cluster(df.key[i]))

\* C2: once generate_cleaned_text has run, every key of the frame has exactly
\* one row in keys and one entry in key_dict, a raw text of its cluster, and
\* every record has its key's entry as cleaned_text.
C2_ClusterCoverage ==
  Cleaned =>
    /\ Len(df.cleaned_text) = NRows(df)
    /\ DOMAIN key_dict = ToSet(df.key)
    /\ \A i \in Rows :
         /\ Cardinality({j \in 1..NRows(keys) : keys.key[j] = df.key[i]}) = 1
         /\ key_dict[df.key[i]] \in Cluster(df.key[i])
         /\ df.cleaned_text[i] = key_dict[df.key[i]]
    /\ \A i \in Rows : \A j \in Rows :
         df.key[i] = df.key[j] => df.cleaned_text[i] = df.cleaned_text[j]

C2_Witness ==
  /\ Cleaned
  /\ \E i \in Rows : \E j \in Rows :
       df.key[i] = df.key[j] /\ df.raw_text[i] # df.raw_text[j]
  /\ \E i \in Rows : \E j \in Rows : df.key[i] # df.key[j]

\* C3: running create_normalized_key and generate_cleaned_text on the
\* cleaned texts of a first pass gives back the same cleaned texts, row by row.
C3_Idempotent ==
  Cleaned =>
    GenerateCleanedText(CreateNormalizedKey(Frame(df.cleaned_text))).df.cleaned_text
      = df.cleaned_text

C3_Witness ==
  /\ Cleaned
  /\ \E i \in Rows : df.cleaned_text[i] # df.raw_text[i]
  /\ \E i \in Rows : \E j \in Rows : df.key[i] # df.key[j]

\* C4: two records have the same key exactly when their sets of distinct
\* stemmed tokens are equal.
C4_KeyIffTokenSet ==
  Keyed =>
    \A i \in Rows : \A j \in Rows :
      (df.key[i] = df.key[j]) <=> (ToSet(Stems(tokens[i])) = ToSet(Stems(tokens[j])))

C4_Witness ==
  /\ Keyed
  /\ \E i \in Rows : \E j \in Rows :
       /\ Stems(tokens[i]) # Stems(tokens[j])
       /\ Len(tokens[i]) >= 2
       /\ df.key[i] = df.key[j]

\* C5: every file the run writes has exactly the columns raw_text and
\* cleaned_text.
C5_NoKeyPersisted ==
  \A f \in (DOMAIN fs) \ {InputFile} :
    ToSet(fs[f].columns) = {"raw_text", "cleaned_text"}

\* C6: the frame keeps the loaded raw texts, row by row, through every step,
\* and the output file has them unchanged with one cleaned text per row.
C6_RowsPreserved ==
  /\ pc # "start" => df.raw_text = fs[InputFile].raw_text
  /\ pc = "saved" =>
       /\ fs[OutputFile].raw_text = fs[InputFile].raw_text
       /\ Len(fs[OutputFile].cleaned_text) = Len(fs[InputFile].raw_text)

C6_Witness ==
  /\ pc = "saved"
  /\ NRows(df) >= 2
  /\ \E i \in Rows : Strip(df.raw_text[i]) # df.raw_text[i]
  /\ \E i \in Rows : fs[OutputFile].cleaned_text[i] # fs[OutputFile].raw_text[i]

\* C7: when the stemmer has failed on a token, the frame still gets a key for
\* every record.
C7_StemmerFailureRecovered ==
  pc = "failed" => "key" \in ToSet(df.columns) /\ Len(df.key) = NRows(df)

\* C8: the three rows of scenario 1 all get the key of the token set
\* {fast, run} and all get the smallest of the three raw texts as cleaned_text.
C8_Scenario1 ==
  (Cleaned /\ df.raw_text = Scenario1) =>
    \A i \in Rows :
      /\ df.key[i] = <<"f", "a", "s", "t", " ", "r", "u", "n">>
      /\ df.cleaned_text[i] = Smallest(ToSet(Scenario1))

\* C9: a raw text of nothing but punctuation, hyphens and whitespace has no
\* token and the empty key; all such records share one cleaned_text, and the
\* only such record of a frame keeps its own raw text.
C9_EmptyKey ==
  /\ Keyed =>
       \A i \in Rows :
         OnlyPunct(df.raw_text[i]) => tokens[i] = <<>> /\ df.key[i] = <<>>
  /\ Cleaned =>
       \A i \in Rows : \A j \in Rows :
         (OnlyPunct(df.raw_text[i]) /\ OnlyPunct(df.raw_text[j])) =>
           /\ df.cleaned_text[i] = df.cleaned_text[j]
           /\ (\A m \in Rows : OnlyPunct(df.raw_text[m]) => m = i) =>
                df.cleaned_text[i] = df.raw_text[i]

C9_Witness ==
  /\ Cleaned
  /\ \E i \in Rows : \E j \in Rows :
       /\ OnlyPunct(df.raw_text[i]) /\ OnlyPunct(df.raw_text[j])
       /\ df.raw_text[i] # <<>> /\ df.raw_text[j] # <<>>
       /\ df.raw_text[i] # df.raw_text[j]

\* C10: the tokens of a text are the whitespace split of the lowercased text
\* with hyphens and punctuation deleted, and a text with no whitespace and
\* some other character than punctuation gives exactly one token.
C10_DeletionNoBoundary ==
  Keyed =>
    \A i \in Rows :
      LET t == df.raw_text[i]
      IN  /\ tokens[i] = Split(SelectSeq(LowerStr(t), LAMBDA c : c \notin Punctuation))
          /\ ((\A n \in 1..Len(t) : t[n] \notin Whitespace)
              /\ (\E n \in 1..Len(t) : t[n] \notin Punctuation))
             => Len(tokens[i]) = 1

C10_Witness ==
  /\ Keyed
  /\ \E i \in Rows :
       LET t == df.raw_text[i]
       IN  /\ \E n \in 2..(Len(t) - 1) :
                t[n] = "-" /\ t[n - 1] \notin Punctuation \cup Whitespace
                           /\ t[n + 1] \notin Punctuation \cup Whitespace
           /\ Len(tokens[i]) = 1
  /\ \E i \in Rows :
       LET t == df.raw_text[i]
       IN  /\ \E n \in 2..(Len(t) - 1) :
                t[n] = "!" /\ t[n - 1] \notin Punctuation \cup Whitespace
                           /\ t[n + 1] \notin Punctuation \cup Whitespace
           /\ Len(tokens[i]) = 1

====
